---------------------------- MODULE Spec2Model ----------------------------
(***************************************************************************)
(* Model of src/trie/calculate_root.rs: the root of a radix-16             *)
(* Merkle-Patricia trie computed from a key/value storage through the two  *)
(* callbacks get_value and prefix_keys, with the optional CalculationCache.*)
(*                                                                         *)
(* Representation.                                                         *)
(*   - a storage key or value is a sequence of bytes (integers 0..255);    *)
(*   - a TrieNodeKey is the sequence of its nibbles (integers 0..15);      *)
(*   - an Option is a sequence of length 0 (None) or 1 (Some);             *)
(*   - a node value / Merkle value is a sequence of cells: the cell <<b>>  *)
(*     is the concrete byte b; a BLAKE2b-256 digest is 32 cells of the     *)
(*     form <<i, x>>, the first of which carries the hashed cell sequence  *)
(*     (the hash is external and is modelled as collision free).           *)
(***************************************************************************)
EXTENDS Integers, Sequences, FiniteSets, TLC

VARIABLES
    storage,   \* the caller's storage: a function from a finite set of keys to values
    cache,     \* CalculationCache.node_values: a function TrieNodeKey -> node value
    result,    \* what the last root_merkle_value call on this snapshot did
    arg,       \* input of the last direct application of a helper function
    ret        \* its output

vars == <<storage, cache, result, arg, ret>>

---------------------------------------------------------------------------
(* Bounds and input sets *)

MaxEntries == 3
MaxPkLen == 600
MaxList == 3

\* a key of 64 nibbles: its partial key has 64, 63 or 62 nibbles depending on
\* the node above it
LongKey == [i \in 1..32 |-> 1]
\* a value that brings a leaf with a one-nibble partial key to exactly 32 bytes
LongValue == [i \in 1..29 |-> 0]

Keys == { <<>>, <<0>>, <<16>>, <<0, 0>>, <<0, 16>>, LongKey }
Values == { <<7>>, LongValue }

None == <<>>
Some(x) == <<x>>

---------------------------------------------------------------------------
(* Byte-level helpers *)

Raw(bytes) == [i \in 1..Len(bytes) |-> <<bytes[i]>>]

Blake2b(cells) == [i \in 1..32 |-> <<i, IF i = 1 THEN cells ELSE <<>>>>]

RECURSIVE le_bytes(_, _)
le_bytes(n, width) ==
    IF width = 0 THEN <<>> ELSE <<n % 256>> \o le_bytes(n \div 256, width - 1)

\* parity_scale_codec Compact<u32> length prefix
compact_len(n) ==
    IF n < 64 THEN <<n * 4>>
    ELSE IF n < 16384 THEN le_bytes(n * 4 + 1, 2)
    ELSE le_bytes(n * 4 + 2, 4)

\* <Vec<u8> as Encode>::encode on a sequence of cells
Encode(cells) == Raw(compact_len(Len(cells))) \o cells

starts_with(s, p) == Len(p) <= Len(s) /\ SubSeq(s, 1, Len(p)) = p

Reverse(s) == [i \in 1..Len(s) |-> s[Len(s) + 1 - i]]

---------------------------------------------------------------------------
(* TrieNodeKey *)

\* byte b gives the nibbles b >> 4 and b & 0xf
from_bytes(bytes) ==
    [i \in 1..(2 * Len(bytes)) |->
        IF i % 2 = 1 THEN bytes[(i + 1) \div 2] \div 16 ELSE bytes[i \div 2] % 16]

to_bytes_truncate(nibbles) ==
    [i \in 1..(Len(nibbles) \div 2) |-> nibbles[2 * i - 1] * 16 + nibbles[2 * i]]

is_ancestor_or_equal(nibbles, key) ==
    LET this == to_bytes_truncate(nibbles)
    IN IF Len(nibbles) % 2 = 0
       THEN starts_with(key, this)
       ELSE /\ starts_with(key, this)
            /\ key # this
            /\ key[Len(this) + 1] \div 16 = nibbles[Len(nibbles)]

\* position (0-based) of the first nibble of `prefix` that differs from `elem`,
\* or Len(prefix) when there is none; Len(prefix) <= Len(elem)
RECURSIVE find_diff(_, _, _)
find_diff(prefix, elem, idx) ==
    IF idx >= Len(prefix) THEN Len(prefix)
    ELSE IF elem[idx + 1] # prefix[idx + 1] THEN idx
    ELSE find_diff(prefix, elem, idx + 1)

\* mutant: the prefix is only cut to the length of the shortest element
RECURSIVE common_prefix_loop_length_only(_, _)
common_prefix_loop_length_only(longest_prefix, list) ==
    IF list = <<>> THEN longest_prefix
    ELSE LET elem == from_bytes(Head(list))
             cut == IF Len(elem) < Len(longest_prefix)
                    THEN SubSeq(longest_prefix, 1, Len(elem))
                    ELSE longest_prefix
         IN IF cut = <<>> THEN cut
            ELSE common_prefix_loop_length_only(cut, Tail(list))

RECURSIVE common_prefix_loop(_, _)
common_prefix_loop(longest_prefix, list) ==
    IF list = <<>> THEN longest_prefix
    ELSE LET elem == from_bytes(Head(list))
             cut == IF Len(elem) < Len(longest_prefix)
                    THEN SubSeq(longest_prefix, 1, Len(elem))
                    ELSE longest_prefix
             next == SubSeq(cut, 1, find_diff(cut, elem, 0))
         IN IF next = <<>> THEN next
            ELSE common_prefix_loop(next, Tail(list))

\* mutant: the loop stops after the second element
common_prefix_first_two(list) ==
    IF list = <<>> THEN None
    ELSE Some(common_prefix_loop(from_bytes(Head(list)),
                                 IF Len(list) >= 2 THEN <<list[2]>> ELSE <<>>))

common_prefix(list) ==
    IF list = <<>> THEN None
    ELSE Some(common_prefix_loop(from_bytes(Head(list)), Tail(list)))

---------------------------------------------------------------------------
(* Config: the storage callbacks.  cfg.order lists the stored keys in the  *)
(* order the storage enumerates them; cfg.rev is the set of prefix lengths *)
(* for which prefix_keys enumerates them backwards.                        *)

get_value(cfg, key) ==
    IF key \in DOMAIN cfg.storage THEN Some(cfg.storage[key]) ELSE None

prefix_keys(cfg, prefix) ==
    LET hits == SelectSeq(cfg.order, LAMBDA k : starts_with(k, prefix))
    IN IF Len(prefix) \in cfg.rev THEN Reverse(hits) ELSE hits

descendant_storage_keys(cfg, key) ==
    SelectSeq(prefix_keys(cfg, to_bytes_truncate(key)),
              LAMBDA k : is_ancestor_or_equal(key, k))

\* mutant: the child of slot n is the trial key itself, not the common prefix
\* of its descendants (no skip compression)
RECURSIVE child_nodes_uncompressed_from(_, _, _)
child_nodes_uncompressed_from(cfg, key, n) ==
    IF n >= 16 THEN <<>>
    ELSE (IF descendant_storage_keys(cfg, key \o <<n>>) # <<>>
          THEN <<key \o <<n>>>> ELSE <<>>)
         \o child_nodes_uncompressed_from(cfg, key, n + 1)

child_nodes_uncompressed(cfg, key) == child_nodes_uncompressed_from(cfg, key, 0)

RECURSIVE child_nodes_from(_, _, _)
child_nodes_from(cfg, key, n) ==
    IF n >= 16 THEN <<>>
    ELSE LET prefix == common_prefix(descendant_storage_keys(cfg, key \o <<n>>))
         IN (IF prefix # None THEN <<prefix[1]>> ELSE <<>>)
            \o child_nodes_from(cfg, key, n + 1)

child_nodes(cfg, key) == child_nodes_from(cfg, key, 0)

---------------------------------------------------------------------------
(* node_value: the encoding of one node *)

Panic == -1

\* u8::try_from(n).unwrap()
u8_try_from_unwrap(n) == IF n >= 0 /\ n <= 255 THEN n ELSE Panic

partial_key_hex_encode(partial_key) ==
    IF Len(partial_key) % 2 = 0
    THEN [i \in 1..(Len(partial_key) \div 2) |->
            partial_key[2 * i - 1] * 16 + partial_key[2 * i]]
    ELSE <<partial_key[1]>> \o
         [i \in 1..(Len(partial_key) \div 2) |->
            partial_key[2 * i] * 16 + partial_key[2 * i + 1]]

two_msb(has_stored_value, has_children) ==
    IF has_stored_value
    THEN (IF has_children THEN 3 ELSE 1)
    ELSE (IF has_children THEN 2 ELSE 0)

\* mutant: the loop runs while pk_len >= 255
RECURSIVE header_loop_ge(_)
header_loop_ge(pk_len) ==
    IF pk_len >= 255
    THEN <<255>> \o header_loop_ge(pk_len - 255)
    ELSE <<u8_try_from_unwrap(pk_len)>>

RECURSIVE header_loop(_)
header_loop(pk_len) ==
    IF pk_len > 255
    THEN <<255>> \o header_loop(pk_len - 255)
    ELSE <<u8_try_from_unwrap(pk_len)>>

header(msb, pk_len) ==
    IF pk_len >= 63
    THEN <<msb * 64 + 63>> \o header_loop(pk_len - 63)
    ELSE <<msb * 64 + u8_try_from_unwrap(pk_len)>>

\* children_bitmap |= 1 << child_index
or_bit(bitmap, idx) ==
    IF (bitmap \div (2 ^ idx)) % 2 = 1 THEN bitmap ELSE bitmap + 2 ^ idx

RECURSIVE children_bitmap(_, _)
children_bitmap(children, at) ==
    IF children = <<>> THEN 0
    ELSE or_bit(children_bitmap(Tail(children), at), Head(children)[at])

\* mutant: the child's partial key keeps the child index nibble
children_partial_keys_with_index(children, combined_key) ==
    [i \in 1..Len(children) |->
        <<children[i][Len(combined_key) + 1],
          SubSeq(children[i], Len(combined_key) + 1, Len(children[i]))>>]

\* (child_index, child_partial_key) of every child of the node at combined_key
children_partial_keys(children, combined_key) ==
    [i \in 1..Len(children) |->
        <<children[i][Len(combined_key) + 1],
          SubSeq(children[i], Len(combined_key) + 2, Len(children[i]))>>]

\* mutant: the cache receives the Merkle value of the node
cache_insert_merkle(node_values, key, value) ==
    [k \in DOMAIN node_values \cup {key} |->
        IF k = key
        THEN (IF Len(value) >= 32 THEN Blake2b(value) ELSE value)
        ELSE node_values[k]]

cache_insert(node_values, key, value) ==
    [k \in DOMAIN node_values \cup {key} |->
        IF k = key THEN value ELSE node_values[k]]

\* Every call returns [val, cache, log]: the bytes returned, the cache the call
\* leaves behind (None without a cache) and one record per nested merkle_value
\* call, in the order the calls return.  node_value also returns ev, the
\* record of the call itself.
call_record(parent_key, child_index, partial_key, depth) ==
    [key |-> parent_key \o child_index \o partial_key, parent |-> parent_key,
     is_root |-> child_index = None, partial |-> partial_key,
     depth |-> depth, hit |-> FALSE, stored |-> None, bitmap |-> 0,
     gets |-> 0, prefixes |-> 0, value |-> <<>>, merkle |-> <<>>]

\* mutant: a node value of exactly 32 bytes stays inline
merkle_value_of_above_32(is_root, nv) ==
    LET out == IF is_root \/ Len(nv.val) > 32 THEN Blake2b(nv.val) ELSE nv.val
    IN [val |-> out,
        cache |-> nv.cache,
        log |-> nv.log \o <<[nv.ev EXCEPT !.merkle = out]>>]

\* merkle_value after its node_value call has returned nv
merkle_value_of(is_root, nv) ==
    LET out == IF is_root \/ Len(nv.val) >= 32 THEN Blake2b(nv.val) ELSE nv.val
    IN [val |-> out,
        cache |-> nv.cache,
        log |-> nv.log \o <<[nv.ev EXCEPT !.merkle = out]>>]

\* node_value, the entry is in the cache
node_value_hit(c, ev) ==
    [val |-> c[1][ev.key], cache |-> c, log |-> <<>>,
     ev |-> [ev EXCEPT !.hit = TRUE, !.value = c[1][ev.key]]]

\* mutant: the child bitmap is emitted for a node without children too
node_value_finish_always_bitmap(ev, stored_value, bitmap, kids) ==
    LET hdr == header(two_msb(stored_value # None, bitmap # 0), Len(ev.partial))
        stored_enc == IF stored_value # None
                      THEN Encode(Raw(stored_value[1])) ELSE <<>>
        value == Raw(hdr) \o Raw(partial_key_hex_encode(ev.partial))
                 \o kids.out \o stored_enc
    IN [val |-> value,
        cache |-> IF kids.cache # None
                  THEN Some(cache_insert(kids.cache[1], ev.key, value))
                  ELSE None,
        log |-> kids.log,
        ev |-> [ev EXCEPT !.stored = stored_value, !.bitmap = bitmap,
                          !.gets = IF Len(ev.key) % 2 = 0 THEN 1 ELSE 0,
                          !.prefixes = 16, !.value = value]]

\* mutant: the stored value of a node with children is left out
node_value_finish_branch_without_value(ev, stored_value, bitmap, kids) ==
    LET hdr == header(two_msb(stored_value # None, bitmap # 0), Len(ev.partial))
        stored_enc == IF stored_value # None
                      THEN Encode(Raw(stored_value[1])) ELSE <<>>
        value == Raw(hdr) \o Raw(partial_key_hex_encode(ev.partial))
                 \o (IF bitmap = 0 THEN stored_enc ELSE kids.out)
    IN [val |-> value,
        cache |-> IF kids.cache # None
                  THEN Some(cache_insert(kids.cache[1], ev.key, value))
                  ELSE None,
        log |-> kids.log,
        ev |-> [ev EXCEPT !.stored = stored_value, !.bitmap = bitmap,
                          !.gets = IF Len(ev.key) % 2 = 0 THEN 1 ELSE 0,
                          !.prefixes = 16, !.value = value]]

\* node_value from the header on; kids is what the loop over the children
\* returned: the bitmap bytes followed by the encoded child Merkle values
node_value_finish(ev, stored_value, bitmap, kids) ==
    LET hdr == header(two_msb(stored_value # None, bitmap # 0), Len(ev.partial))
        stored_enc == IF stored_value # None
                      THEN Encode(Raw(stored_value[1])) ELSE <<>>
        node_subvalue == IF bitmap = 0 THEN stored_enc
                         ELSE kids.out \o stored_enc
        value == Raw(hdr) \o Raw(partial_key_hex_encode(ev.partial))
                 \o node_subvalue
    IN [val |-> value,
        cache |-> IF kids.cache # None
                  THEN Some(cache_insert(kids.cache[1], ev.key, value))
                  ELSE None,
        log |-> kids.log,
        ev |-> [ev EXCEPT !.stored = stored_value, !.bitmap = bitmap,
                          !.gets = IF Len(ev.key) % 2 = 0 THEN 1 ELSE 0,
                          !.prefixes = 16, !.value = value]]

\* one turn of the loop over children_partial_keys
push_child(acc, m) ==
    [out |-> acc.out \o Encode(m.val),
     cache |-> m.cache,
     log |-> acc.log \o m.log]

RECURSIVE merkle_value(_, _, _, _, _, _)
RECURSIVE node_value(_, _, _, _, _, _)
RECURSIVE node_value_miss(_, _, _, _, _, _)
RECURSIVE children_values(_, _, _, _, _, _)

merkle_value(cfg, c, parent_key, child_index, partial_key, depth) ==
    merkle_value_of(child_index = None,
                    node_value(cfg, c, parent_key, child_index, partial_key, depth))

node_value(cfg, c, parent_key, child_index, partial_key, depth) ==
    LET ev == call_record(parent_key, child_index, partial_key, depth)
    IN IF c # None /\ ev.key \in DOMAIN c[1]
       THEN node_value_hit(c, ev)
       ELSE node_value_miss(cfg, c, ev,
                IF Len(ev.key) % 2 = 0
                THEN get_value(cfg, to_bytes_truncate(ev.key))
                ELSE None,
                child_nodes(cfg, ev.key),
                depth)

\* node_value, the entry is not in the cache (or there is no cache)
node_value_miss(cfg, c, ev, stored_value, children, depth) ==
    node_value_finish(ev, stored_value,
        children_bitmap(children, Len(ev.key) + 1),
        children_values(cfg, ev.key, children_partial_keys(children, ev.key),
            depth, 1,
            [out |-> Raw(le_bytes(children_bitmap(children, Len(ev.key) + 1), 2)),
             cache |-> c, log |-> <<>>]))

\* the loop over children_partial_keys, from its i-th element on
children_values(cfg, combined_key, cpk, depth, i, acc) ==
    IF i > Len(cpk) THEN acc
    ELSE children_values(cfg, combined_key, cpk, depth, i + 1,
            push_child(acc,
                merkle_value(cfg, acc.cache, combined_key,
                             Some(cpk[i][1]), cpk[i][2], depth + 1)))

root_merkle_value(cfg, c) ==
    LET keys == prefix_keys(cfg, <<>>)
        found == common_prefix(keys)
        key_from_root == IF found # None THEN found[1] ELSE <<>>
    IN merkle_value(cfg, c, <<>>, None, key_from_root, 0)

---------------------------------------------------------------------------
(* CalculationCache *)

empty == <<>>

\* mutant: only the entries below the prefix are dropped
invalidate_prefix_subtree(node_values, prefix) ==
    [k \in { x \in DOMAIN node_values : ~starts_with(x, from_bytes(prefix)) } |->
        node_values[k]]

invalidate_prefix(node_values, prefix) == empty

invalidate_node(node_values, key) == invalidate_prefix(node_values, key)

---------------------------------------------------------------------------
(* The caller's storage, enumerated in ascending key order (a BTreeMap) *)

RECURSIVE key_less(_, _)
key_less(a, b) ==
    IF b = <<>> THEN FALSE
    ELSE IF a = <<>> THEN TRUE
    ELSE IF Head(a) # Head(b) THEN Head(a) < Head(b)
    ELSE key_less(Tail(a), Tail(b))

RECURSIVE sorted_keys(_)
sorted_keys(S) ==
    IF S = {} THEN <<>>
    ELSE LET m == CHOOSE k \in S : \A o \in S \ {k} : key_less(k, o)
         IN <<m>> \o sorted_keys(S \ {m})

Config(st) == [storage |-> st, order |-> sorted_keys(DOMAIN st), rev |-> {}]

\* result.dropped: the invalidation that followed the last mutation removed
\* entries; result.before: the cache the call was given; result.prev: the root
\* an earlier call returned on this snapshot
NoResult == [done |-> FALSE, with_cache |-> FALSE, dropped |-> FALSE,
             before |-> empty, root |-> <<>>, log |-> <<>>, prev |-> None]

---------------------------------------------------------------------------
(* Actions *)

Init ==
    /\ storage = <<>>
    /\ cache = empty
    /\ result = NoResult
    /\ arg = <<"none">>
    /\ ret = <<>>

\* storage.insert(k, v) followed by cache.invalidate_node(k)
Insert(k, v) ==
    /\ k \in DOMAIN storage \/ Cardinality(DOMAIN storage) < MaxEntries
    /\ k \in DOMAIN storage => storage[k] # v
    /\ storage' = [x \in DOMAIN storage \cup {k} |-> IF x = k THEN v ELSE storage[x]]
    /\ cache' = invalidate_node(cache, k)
    /\ result' = [NoResult EXCEPT !.dropped = (cache' # cache)]
    /\ UNCHANGED <<arg, ret>>

\* storage.remove(k) followed by cache.invalidate_prefix(p), p a prefix of k
Remove(k, p) ==
    /\ k \in DOMAIN storage
    /\ starts_with(k, p)
    /\ storage' = [x \in DOMAIN storage \ {k} |-> storage[x]]
    /\ cache' = invalidate_prefix(cache, p)
    /\ result' = [NoResult EXCEPT !.dropped = (cache' # cache)]
    /\ UNCHANGED <<arg, ret>>

\* root_merkle_value(Config { get_value, prefix_keys, cache })
Compute(use_cache) ==
    LET r == root_merkle_value(Config(storage),
                               IF use_cache THEN Some(cache) ELSE None)
    IN /\ cache' = IF use_cache THEN r.cache[1] ELSE cache
       /\ result' = [done |-> TRUE, with_cache |-> use_cache,
                     dropped |-> result.dropped, before |-> cache,
                     root |-> r.val, log |-> r.log,
                     prev |-> IF result.done THEN Some(result.root) ELSE None]
       /\ UNCHANGED <<storage, arg, ret>>

Next ==
    \/ \E k \in Keys, v \in Values : Insert(k, v)
    \/ \E k \in Keys, p \in Keys : Remove(k, p)
    \/ \E use_cache \in BOOLEAN : Compute(use_cache)

Spec == Init /\ [][Next]_vars

---------------------------------------------------------------------------
(* Direct applications of the helper functions *)

\* the header bytes of a node of type msb with a partial key of pk_len nibbles
ApplyHeader(msb, pk_len) ==
    /\ arg = <<"none">>
    /\ arg' = <<"header", msb, pk_len>>
    /\ ret' = header(msb, pk_len)
    /\ UNCHANGED <<storage, cache, result>>

NextHeader == \E msb \in 0..3, pk_len \in 0..MaxPkLen : ApplyHeader(msb, pk_len)

SpecHeader == Init /\ [][NextHeader]_vars

KeyLists == UNION { [1..n -> Keys] : n \in 0..MaxList }

ApplyCommonPrefix(list) ==
    /\ arg = <<"none">>
    /\ arg' = <<"common_prefix", list>>
    /\ ret' = common_prefix(list)
    /\ UNCHANGED <<storage, cache, result>>

NextPrefix == \E list \in KeyLists : ApplyCommonPrefix(list)

SpecPrefix == Init /\ [][NextPrefix]_vars

---------------------------------------------------------------------------
(* Root computations over storages that enumerate their keys in any order *)

Orders(S) ==
    { o \in [1..Cardinality(S) -> S] : \A i, j \in DOMAIN o : o[i] = o[j] => i = j }

\* prefix lengths (in bytes) at which prefix_keys may enumerate backwards
RevLengths == {0, 1, 2}

value_of(k) == IF Len(k) % 2 = 0 THEN <<7>> ELSE LongValue

OrderStorages ==
    { [k \in S |-> value_of(k)] :
        S \in { T \in SUBSET Keys : Cardinality(T) <= MaxEntries } }

InitOrder ==
    /\ storage \in OrderStorages
    /\ cache = empty
    /\ result = NoResult
    /\ arg = <<"none">>
    /\ ret = <<>>

\* root_merkle_value without cache on a storage whose prefix_keys follows ord
ComputeOrdered(ord, rev) ==
    LET r == root_merkle_value([storage |-> storage, order |-> ord, rev |-> rev],
                               None)
    IN /\ ~result.done
       /\ result' = [NoResult EXCEPT !.done = TRUE, !.root = r.val, !.log = r.log]
       /\ arg' = <<"order", ord, rev>>
       /\ UNCHANGED <<storage, cache, ret>>

NextOrder ==
    \E ord \in Orders(DOMAIN storage), rev \in SUBSET RevLengths :
        ComputeOrdered(ord, rev)

SpecOrder == InitOrder /\ [][NextOrder]_vars

---------------------------------------------------------------------------
(* Vocabulary of the properties *)

Calls == { result.log[i] : i \in DOMAIN result.log }

\* the calls that encoded a node (cache misses)
Encoded == { e \in Calls : ~e.hit }

RootCall == result.log[Len(result.log)]

BitCount(bitmap) == Cardinality({ i \in 0..15 : (bitmap \div (2 ^ i)) % 2 = 1 })

HeaderType(value) == value[1][1] \div 64

IsDigest(cells) == Len(cells) = 32 /\ \A i \in 1..32 : Len(cells[i]) = 2

ends_with(s, t) ==
    Len(t) <= Len(s) /\ SubSeq(s, Len(s) - Len(t) + 1, Len(s)) = t

\* nibble length of the longest storage key (0 for the empty storage)
LongestKeyNibbles ==
    IF DOMAIN storage = {} THEN 0
    ELSE CHOOSE n \in { 2 * Len(k) : k \in DOMAIN storage } :
            \A k \in DOMAIN storage : 2 * Len(k) <= n

FreshRoot == root_merkle_value(Config(storage), Some(empty)).val

UncachedRoot == root_merkle_value(Config(storage), None).val

---------------------------------------------------------------------------
(* C1: when every mutation of the storage has been followed by             *)
(* invalidate_node or invalidate_prefix, a root computed with the cache    *)
(* (whatever earlier computations put into it) equals the root computed on *)
(* the same snapshot with an empty cache and with no cache.                *)
C1_CacheAgreesWithFresh ==
    (result.done /\ result.with_cache) =>
        /\ result.root = FreshRoot
        /\ result.root = UncachedRoot

\* a cache populated on an older snapshot was invalidated by a mutation,
\* populated again on the final snapshot and then used for a computation
C1_Witness ==
    /\ result.done /\ result.with_cache /\ result.dropped
    /\ result.before # empty
    /\ Cardinality(DOMAIN storage) >= 2
    /\ \E e \in Calls : e.hit

(* C3: merkle_value hashes exactly when the node is the root or its         *)
(* encoding has at least 32 bytes and otherwise returns the encoding as is; *)
(* the root is a 32-byte digest and no Merkle value is longer than 32.      *)
C3_InlineOrHash ==
    result.done =>
        /\ \A e \in Calls :
              /\ e.merkle = IF e.is_root \/ Len(e.value) >= 32
                            THEN Blake2b(e.value) ELSE e.value
              /\ IsDigest(e.merkle) <=> (e.is_root \/ Len(e.value) >= 32)
              /\ Len(e.merkle) <= 32
        /\ result.root = RootCall.merkle
        /\ RootCall.is_root
        /\ IsDigest(result.root)

\* one child whose encoding has exactly 32 bytes (hashed) beside a child
\* that stays inline
C3_Witness ==
    /\ result.done
    /\ \E e \in Calls : ~e.is_root /\ Len(e.value) = 32 /\ IsDigest(e.merkle)
    /\ \E e \in Calls : ~e.is_root /\ Len(e.value) < 32 /\ e.merkle = e.value

(* C4: on the empty storage the root node has the empty key, no stored     *)
(* value and no children, is encoded as the single byte 0x00, and the root *)
(* is the digest of that byte.                                             *)
C4_EmptyStorage ==
    (result.done /\ DOMAIN storage = {}) =>
        /\ Len(result.log) = 1
        /\ RootCall.key = <<>>
        /\ RootCall.value = Raw(<<0>>)
        /\ result.root = Blake2b(Raw(<<0>>))
        /\ ~RootCall.hit => (RootCall.stored = None /\ RootCall.bitmap = 0)

C4_Witness ==
    result.done /\ DOMAIN storage = {} /\ ~RootCall.hit

(* C5: skip compression.  Every node that node_value encodes has a stored  *)
(* value or at least two children, the root of the empty storage (header   *)
(* type 00) being the one node with neither; header type 00 appears only   *)
(* at the root of the empty storage; a node of header type 10 has at least *)
(* two bits in its child bitmap.                                           *)
C5_SkipCompression ==
    result.done =>
        \A e \in Encoded :
            /\ \/ e.stored # None
               \/ BitCount(e.bitmap) >= 2
               \/ (DOMAIN storage = {} /\ e.is_root /\ HeaderType(e.value) = 0)
            /\ HeaderType(e.value) = 0 => (DOMAIN storage = {} /\ e.is_root)
            /\ HeaderType(e.value) = 2 => BitCount(e.bitmap) >= 2
            /\ HeaderType(e.value) =
                  two_msb(e.stored # None, BitCount(e.bitmap) > 0)

\* a branch without value below the root, with exactly two children
C5_Witness ==
    /\ result.done
    /\ \E e \in Encoded :
          ~e.is_root /\ e.stored = None /\ BitCount(e.bitmap) = 2
          /\ HeaderType(e.value) = 2

(* C6: in a computation without cache or from an empty cache, every        *)
(* storage key is the absolute key of exactly one encoded node, whose      *)
(* encoding carries the key's value as stored value, and no absolute key   *)
(* is encoded twice.                                                       *)
C6_EveryKeyEncodedOnce ==
    (result.done /\ (~result.with_cache \/ result.before = empty)) =>
        /\ \A k \in DOMAIN storage :
              /\ Cardinality({ i \in DOMAIN result.log :
                                 result.log[i].key = from_bytes(k) }) = 1
              /\ \A e \in Calls :
                    e.key = from_bytes(k) =>
                        /\ ~e.hit
                        /\ e.stored = Some(storage[k])
                        /\ ends_with(e.value, Encode(Raw(storage[k])))
        /\ \A i, j \in DOMAIN result.log :
              result.log[i].key = result.log[j].key => i = j

\* three keys on one path: each of the upper two has a value and a child
C6_Witness ==
    /\ result.done /\ result.with_cache /\ result.before = empty
    /\ Cardinality(DOMAIN storage) = 3
    /\ Cardinality({ e \in Encoded : e.stored # None /\ e.bitmap # 0 }) = 2

(* C7: a cache hit returns the cached bytes without get_value, prefix_keys *)
(* or recursion and without changing the cache; a miss inserts the encoded *)
(* node value (not the Merkle value) under the absolute key.  A second     *)
(* computation on the unchanged snapshot with the populated cache returns  *)
(* the same root and leaves the cache as it was.                           *)
C7_HitAndMiss ==
    (result.done /\ result.with_cache) =>
        /\ \A e \in Calls :
              e.hit =>
                 /\ e.key \in DOMAIN result.before
                 /\ e.value = result.before[e.key]
                 /\ e.gets = 0 /\ e.prefixes = 0
                 /\ \A f \in Calls : ~f.is_root => f.parent # e.key
        /\ \A e \in Encoded :
              /\ e.key \notin DOMAIN result.before
              /\ e.key \in DOMAIN cache
              /\ cache[e.key] = e.value
        /\ \A k \in DOMAIN result.before :
              k \in DOMAIN cache /\ cache[k] = result.before[k]
        /\ DOMAIN cache = DOMAIN result.before \cup { e.key : e \in Encoded }
        /\ (RootCall.hit => cache = result.before)
        /\ (result.before # empty /\ result.prev # None) =>
              /\ result.root = result.prev[1]
              /\ cache = result.before

\* the second computation with the cache on a snapshot of three keys whose
\* root encoding is hashed children and all
C7_Witness ==
    /\ result.done /\ result.with_cache
    /\ result.prev # None /\ result.before # empty
    /\ RootCall.hit /\ Len(result.log) = 1
    /\ Cardinality(DOMAIN cache) >= 3

(* C10: every recursive merkle_value call is made for a child whose        *)
(* absolute key strictly extends the caller's, every absolute key is a     *)
(* prefix of some storage key, so the recursion depth never exceeds the    *)
(* nibble length of the longest storage key, and the recursion stops at    *)
(* nodes without children.                                                 *)
C10_DepthBounded ==
    result.done =>
        /\ \A e \in Calls :
              /\ e.is_root <=> e.depth = 0
              /\ ~e.is_root =>
                    /\ Len(e.key) > Len(e.parent)
                    /\ starts_with(e.key, e.parent)
                    /\ \E f \in Encoded :
                          f.key = e.parent /\ f.depth + 1 = e.depth
                          /\ (f.bitmap \div (2 ^ e.key[Len(f.key) + 1])) % 2 = 1
              /\ e.depth <= Len(e.key)
              /\ Len(e.key) <= LongestKeyNibbles
              /\ e.depth <= LongestKeyNibbles
        /\ \A f \in Encoded :
              Cardinality({ e \in Calls : ~e.is_root /\ e.parent = f.key })
                 = BitCount(f.bitmap)

\* a recursion of depth two
C10_Witness ==
    /\ result.done
    /\ \E e \in Encoded : e.depth = 2 /\ e.bitmap = 0

---------------------------------------------------------------------------
(* C2: the root depends only on the mapping: whatever order prefix_keys    *)
(* enumerates the keys in (the insertion order, forwards or backwards from *)
(* call to call), the root is the root of the storage enumerated in        *)
(* ascending key order.                                                    *)
C2_OrderIndependent ==
    arg[1] = "order" => result.root = UncachedRoot

\* three keys enumerated out of order, backwards in some calls, under a root
\* that has children
C2_Witness ==
    /\ arg[1] = "order"
    /\ Cardinality(DOMAIN storage) = 3
    /\ arg[2] # sorted_keys(DOMAIN storage)
    /\ arg[2] # Reverse(sorted_keys(DOMAIN storage))
    /\ arg[3] = {1}
    /\ RootCall.bitmap # 0

---------------------------------------------------------------------------
(* Header bytes *)

RECURSIVE SumSeq(_)
SumSeq(s) == IF s = <<>> THEN 0 ELSE Head(s) + SumSeq(Tail(s))

\* number of 255 bytes emitted before the final byte for a remainder r:
\* the least n with r - 255 * n <= 255
Full255(r) == IF r = 0 THEN 0 ELSE (r - 1) \div 255

(* C8: a partial key of L < 63 nibbles gives the one header byte           *)
(* (t << 6) | L; L >= 63 gives (t << 6) | 63 followed by bytes that sum to *)
(* L - 63: 255 as long as the remainder exceeds 255, then one final byte   *)
(* in 0..255; the conversion of the remainder to a byte never fails.       *)
C8_HeaderLength ==
    arg[1] = "header" =>
        LET t == arg[2]
            L == arg[3]
        IN /\ \A i \in DOMAIN ret : ret[i] \in 0..255
           /\ L < 63 => ret = <<t * 64 + L>>
           /\ L >= 63 =>
                /\ ret[1] = t * 64 + 63
                /\ Len(ret) = 2 + Full255(L - 63)
                /\ \A i \in 2..(Len(ret) - 1) : ret[i] = 255
                /\ ret[Len(ret)] = (L - 63) - 255 * Full255(L - 63)
                /\ SumSeq(Tail(ret)) = L - 63

\* the remainder is exactly 255: one final byte 255, no zero byte after it
C8_Witness ==
    arg = <<"header", 2, 63 + 255>> /\ ret = <<191, 255>>

---------------------------------------------------------------------------
(* common_prefix *)

\* the longest nibble sequence that is a prefix of every element of list
LongestCommonPrefix(list) ==
    LET first == from_bytes(list[1])
        shared(n) == \A i \in DOMAIN list :
                        starts_with(from_bytes(list[i]), SubSeq(first, 1, n))
        best == CHOOSE n \in 0..Len(first) :
                    shared(n) /\ \A m \in (n + 1)..Len(first) : ~shared(m)
    IN SubSeq(first, 1, best)

\* two inputs differ in their first nibble
DivergeAtNibble0(list) ==
    \E i, j \in DOMAIN list :
        /\ list[i] # <<>> /\ list[j] # <<>>
        /\ from_bytes(list[i])[1] # from_bytes(list[j])[1]

\* C9 as stated: None iff the list is empty; the empty NodeKey iff the
\* inputs diverge at nibble 0; otherwise the longest common prefix.
C9_AsStated ==
    arg[1] = "common_prefix" =>
        /\ ret = None <=> arg[2] = <<>>
        /\ ret = Some(<<>>) <=> DivergeAtNibble0(arg[2])
        /\ (arg[2] # <<>> /\ ~DivergeAtNibble0(arg[2])) =>
              ret = Some(LongestCommonPrefix(arg[2]))

(* C9, amended: common_prefix returns None iff the list is empty and       *)
(* otherwise the longest nibble sequence that is a prefix of every input,  *)
(* also when it stops early; that is the empty NodeKey iff two inputs      *)
(* diverge at nibble 0 or some input is the empty byte string.             *)
C9_LongestCommonPrefix ==
    arg[1] = "common_prefix" =>
        /\ ret = None <=> arg[2] = <<>>
        /\ arg[2] # <<>> => ret = Some(LongestCommonPrefix(arg[2]))
        /\ ret = Some(<<>>) <=>
              /\ arg[2] # <<>>
              /\ \/ DivergeAtNibble0(arg[2])
                 \/ \E i \in DOMAIN arg[2] : arg[2][i] = <<>>

\* the loop stops at the second of three elements: an empty key, with no
\* two inputs diverging at nibble 0
C9_Witness ==
    /\ arg[1] = "common_prefix"
    /\ Len(arg[2]) = 3
    /\ arg[2][1] # <<>> /\ arg[2][2] = <<>> /\ arg[2][3] # <<>>
    /\ ~DivergeAtNibble0(arg[2])
    /\ ret = Some(<<>>)

=============================================================================
